---- MODULE Spec2Model ----
(***************************************************************************)
(* Model of the POST /api/analyze pipeline of backend/server.js:           *)
(* multer upload middleware -> validation -> sequential per-image remote   *)
(* inference calls -> aggregation.  One request is followed from arrival   *)
(* to its response.                                                        *)
(***************************************************************************)
EXTENDS Integers, Sequences, FiniteSets, TLC

\* ---------------------------------------------------------------- bounds
MaxFiles == 2
MaxPreds == 2

\* ------------------------------------------------------- process config
\* process.env values: "" stands for an unset (or empty) variable.
EnvValues == {"", "YOUR_KEY_HERE", "rf_live_key"}
EnvModelValues == {"", "YOUR_MODEL_ID_HERE", "wings/3"}

\* const ROBOFLOW_API_KEY = process.env.ROBOFLOW_API_KEY || 'YOUR_KEY_HERE'
ROBOFLOW_API_KEY(env) == IF env = "" THEN "YOUR_KEY_HERE" ELSE env

\* const ROBOFLOW_MODEL_ID = process.env.ROBOFLOW_MODEL_ID || 'YOUR_MODEL_ID_HERE'
ROBOFLOW_MODEL_ID(env) == IF env = "" THEN "YOUR_MODEL_ID_HERE" ELSE env

\* ------------------------------------------------------------- requests
\* One multipart file part: declared media type, whether its payload exceeds
\* limits.fileSize (10 MB), and the filename sent by the client ("" = none).
MimeTypes == {"image/jpeg", "text/plain"}
FileNames == {"", "a.jpg"}
FileParts == [mimetype : MimeTypes, oversize : BOOLEAN, originalname : FileNames]

\* req.body.area as sent by the client ("" = field absent or empty)
Areas == {"", "wing"}

RECURSIVE SeqsUpTo(_, _)
SeqsUpTo(S, n) ==
    IF n = 0 THEN {<<>>}
    ELSE LET shorter == SeqsUpTo(S, n - 1)
         IN  shorter \cup {Append(s, x) : s \in {t \in shorter : Len(t) = n - 1}, x \in S}

PartLists == SeqsUpTo(FileParts, MaxFiles)

\* file.mimetype.startsWith('image/')
StartsWithImage(mimetype) == mimetype \in {"image/jpeg"}

\* variant: a filter that lets every part through
FileFilterAcceptAll(file) == TRUE

\* multer fileFilter: TRUE = cb(null, true), FALSE = cb(new Error(...), false)
FileFilter(file) == StartsWithImage(file.mimetype)

\* upload.any(): parts are handled in the order they arrive; the first part
\* that is refused by the fileFilter or that runs over limits.fileSize aborts
\* the upload with that error, later parts are not looked at.  A refused part
\* is never buffered, so its size is never measured.
RECURSIVE UploadAny(_, _)
UploadAny(parts, k) ==
    IF k > Len(parts) THEN "none"
    ELSE IF ~FileFilter(parts[k]) THEN "Only image files are allowed"
    ELSE IF parts[k].oversize THEN "LIMIT_FILE_SIZE"
    ELSE UploadAny(parts, k + 1)

\* The callback given to upload.any() when err is set.  err is the fileFilter's
\* message or a MulterError code; requests are well-formed multipart bodies, so
\* the only errors raised are the two that the upload configuration can raise.
UploadErrorResponse(err) ==
    IF err = "Only image files are allowed"
    THEN [status |-> 400,
          body |-> [error |-> "Invalid file type",
                    message |-> "Only image files are allowed"]]
    ELSE IF err = "LIMIT_FILE_SIZE"
    THEN [status |-> 400,
          body |-> [error |-> "File too large",
                    message |-> "Image must be less than 10MB"]]
    ELSE [status |-> 400,
          body |-> [error |-> "Upload error", message |-> err]]

\* ------------------------------------------------ remote inference service
\* Detections as the provider sends them: arbitrary provider fields; a
\* detection may already carry fields named imageIndex / imageName.
Detections ==
    { [class |-> "crack"],
      [class |-> "dent", imageIndex |-> 7, imageName |-> "z.png"] }

PredictionLists == SeqsUpTo(Detections, MaxPreds)

\* What one axios.post can come back with.
\*   settled    "response": the service answered with `status` and a body;
\*              "noResponse": the transport failed (refused, reset, timed out)
\*   dataKind   parsed body: an "object", JSON "null", or a non-JSON "string"
\*   predsKind  body.predictions: an "array", "absent", or a "nonArray" value
\*   image      body.image: "" when absent, else the source dimensions
\*   message, error   body.message / body.error ("" = absent)
\*   networkMessage   message of the transport error
Outcome(settled, status, dataKind, predsKind, preds, image, message, error, net) ==
    [settled |-> settled, status |-> status, dataKind |-> dataKind,
     predsKind |-> predsKind, predictions |-> preds, image |-> image,
     message |-> message, error |-> error, networkMessage |-> net]

SuccessOutcomes ==
    { Outcome("response", 200, "object", "array", ps, "", "", "", "") :
         ps \in PredictionLists }
    \cup
    { Outcome("response", 200, "object", "array", <<[class |-> "crack"]>>,
              "640x480", "", "", ""),
      Outcome("response", 200, "object", "absent", <<>>, "", "", "", ""),
      Outcome("response", 200, "string", "absent", <<>>, "", "", "", "") }

MalformedOutcomes ==
    { Outcome("response", 200, "null", "absent", <<>>, "", "", "", ""),
      Outcome("response", 200, "object", "nonArray", <<>>, "", "", "", "") }

HttpErrorOutcomes ==
    { Outcome("response", 403, "object", "absent", <<>>, "", "Forbidden", "", ""),
      Outcome("response", 403, "object", "absent", <<>>, "", "", "", ""),
      Outcome("response", 401, "object", "absent", <<>>, "", "", "bad api key", ""),
      Outcome("response", 404, "object", "absent", <<>>, "", "", "", ""),
      Outcome("response", 500, "object", "absent", <<>>, "", "overloaded", "", "") }

TransportOutcomes ==
    { Outcome("noResponse", 0, "null", "absent", <<>>, "", "", "", m) :
         m \in {"connect ETIMEDOUT", "socket hang up", ""} }

RemoteOutcomes ==
    SuccessOutcomes \cup MalformedOutcomes \cup HttpErrorOutcomes \cup TransportOutcomes

\* axios.post rejects on a transport failure and on every non-2xx status
AxiosRejects(o) ==
    \/ o.settled = "noResponse"
    \/ o.status < 200
    \/ o.status > 299

\* the thrown error's own message
AxiosErrorMessage(o) ==
    IF o.settled = "noResponse" THEN o.networkMessage
    ELSE "Request failed with status code " \o ToString(o.status)

\* ------------------------------------------------------ per-image step
\* file.originalname || `image_${i + 1}.jpg`   (i is the 0-based loop index)
ImageName(file, i) ==
    IF file.originalname # "" THEN file.originalname
    ELSE "image_" \o ToString(i + 1) \o ".jpg"

\* variant: { imageIndex: i, imageName: ..., ...p }, the provider's fields win
StampPredictionProviderWins(p, i, name) == p @@ [imageIndex |-> i, imageName |-> name]

\* { ...p, imageIndex: i, imageName: ... }: the fields written last win
StampPrediction(p, i, name) == [imageIndex |-> i, imageName |-> name] @@ p

StampAll(ps, i, name) == [k \in 1..Len(ps) |-> StampPrediction(ps[k], i, name)]

\* The body of the inner try: "ok" when it runs to results.push, otherwise
\* the message of the error it throws.
TryThrows(o) ==
    \/ AxiosRejects(o)
    \/ o.dataKind = "null"
    \/ o.dataKind = "object" /\ o.predsKind = "nonArray"

ThrownMessage(o) ==
    IF AxiosRejects(o) THEN AxiosErrorMessage(o)
    ELSE IF o.dataKind = "null"
    THEN "Cannot read properties of null (reading 'predictions')"
    ELSE "(response.data.predictions || []).map is not a function"

\* response.data.predictions || []
PredictionsOrEmpty(o) ==
    IF o.dataKind = "object" /\ o.predsKind = "array" THEN o.predictions ELSE <<>>

\* response.data.image?.width || null,  response.data.image?.height || null
ImageWidth(o) == IF o.dataKind = "object" /\ o.image = "640x480" THEN "640" ELSE "null"

ImageHeight(o) == IF o.dataKind = "object" /\ o.image = "640x480" THEN "480" ELSE "null"

\* variant: the thrown message is dropped
FailureMessageGeneric(msg) == "Failed to process image"

\* error.message || 'Failed to process image'
FailureMessage(msg) == IF msg # "" THEN msg ELSE "Failed to process image"

\* the entry pushed to results for image i
SuccessEntry(file, i, o) ==
    [imageIndex |-> i,
     imageName |-> ImageName(file, i),
     predictions |-> StampAll(PredictionsOrEmpty(o), i, ImageName(file, i)),
     image_width |-> ImageWidth(o),
     image_height |-> ImageHeight(o)]

FailureEntry(file, i, o) ==
    [imageIndex |-> i,
     imageName |-> ImageName(file, i),
     error |-> FailureMessage(ThrownMessage(o)),
     predictions |-> <<>>]

ItemResult(file, i, o) ==
    IF TryThrows(o) THEN FailureEntry(file, i, o) ELSE SuccessEntry(file, i, o)

\* variant: results.unshift(entry)
PushResultFront(rs, entry) == <<entry>> \o rs

\* results.push(entry)
PushResult(rs, entry) == Append(rs, entry)

\* variant: flattening from the last entry to the first
RECURSIVE FlatMapReversed(_)
FlatMapReversed(rs) ==
    IF rs = <<>> THEN <<>>
    ELSE FlatMapReversed(Tail(rs)) \o Head(rs).predictions

\* results.flatMap(r => r.predictions || [])
RECURSIVE FlatMapPredictions(_)
FlatMapPredictions(rs) ==
    IF rs = <<>> THEN <<>>
    ELSE Head(rs).predictions \o FlatMapPredictions(Tail(rs))

\* req.body.area || 'unknown'
SelectedArea(area) == IF area # "" THEN area ELSE "unknown"

\* the 200 reply
AggregateResponse(area, rs) ==
    [status |-> 200,
     body |-> [success |-> TRUE,
               area |-> SelectedArea(area),
               results |-> rs,
               predictions |-> FlatMapPredictions(rs),
               image_count |-> Len(rs),
               total_defects |-> Len(FlatMapPredictions(rs))]]

\* ------------------------------------------------------- outer catch
\* error.response.data?.message || error.response.data?.error || error.message
RemoteErrorMessage(o) ==
    IF o.message # "" THEN o.message
    ELSE IF o.error # "" THEN o.error
    ELSE AxiosErrorMessage(o)

\* userMessage: the status-specific guidance
UserMessage(status, errorMessage) ==
    IF status = 403
    THEN "Access forbidden. Possible issues:\n"
         \o "1. Invalid API key - Check your Roboflow API key in .env file\n"
         \o "2. API key doesn't have permission for this model\n"
         \o "3. Model ID might be incorrect - Format should be: project-name/version-number\n"
         \o "4. Model might not be deployed or public\n\n"
         \o "Error details: " \o errorMessage
    ELSE IF status = 401
    THEN "Unauthorized. Check your Roboflow API key in .env file."
    ELSE IF status = 404
    THEN "Model not found. Check your MODEL_ID in .env file. Format: project-name/version-number"
    ELSE errorMessage

\* The reply of the outer catch for an error thrown by a remote call that
\* came back as o (error.response set when the remote answered).  No action
\* uses it: every remote call sits inside the per-image try.
OuterCatchResponse(o) ==
    IF o.settled = "response"
    THEN [status |-> o.status,
          body |-> [error |-> "Roboflow API error",
                    message |-> UserMessage(o.status, RemoteErrorMessage(o)),
                    status |-> o.status,
                    roboflowError |-> RemoteErrorMessage(o)]]
    ELSE [status |-> 500,
          body |-> [error |-> "Internal server error",
                    message |-> IF o.networkMessage # "" THEN o.networkMessage
                                ELSE "Failed to analyze image"]]

\* ----------------------------------------------------------- validation
\* variant: the file check left out
NoFilesUnchecked(fs) == FALSE

\* !files || files.length === 0
NoFiles(fs) == Len(fs) = 0

\* the placeholder check
NotConfigured(key, model) ==
    \/ key = "YOUR_KEY_HERE"
    \/ model = "YOUR_MODEL_ID_HERE"
    \/ key = ""
    \/ model = ""

\* variant: the config check made before the file check
ValidateConfigFirst(fs, key, model) ==
    IF key = "YOUR_KEY_HERE" \/ model = "YOUR_MODEL_ID_HERE" THEN "notConfigured"
    ELSE IF Len(fs) = 0 THEN "noFiles"
    ELSE "ok"

\* The two checks at the top of the handler, in the order they are made.
Validate(fs, key, model) ==
    IF NoFiles(fs) THEN "noFiles"
    ELSE IF NotConfigured(key, model) THEN "notConfigured"
    ELSE "ok"

NoImagesResponse ==
    [status |-> 400,
     body |-> [error |-> "No images provided",
               message |-> "Please upload at least one image file"]]

NotConfiguredResponse ==
    [status |-> 500,
     body |-> [error |-> "API not configured",
               message |-> "Please set ROBOFLOW_API_KEY and ROBOFLOW_MODEL_ID in your .env file"]]

\* variant: the loop stops one image early
LoopContinuesSkipLast(k, fs) == k < Len(fs) - 1

\* for (let i = 0; i < files.length; i++): the loop condition
LoopContinues(k, fs) == k < Len(fs)

\* ---------------------------------------------------------------- state
VARIABLES
    envKey,      \* process.env.ROBOFLOW_API_KEY
    envModel,    \* process.env.ROBOFLOW_MODEL_ID
    pc,          \* where the request is: "idle", "upload", "handler", "loop", "await",
                 \* "done", or "hung" (awaiting a call that is never answered)
    parts,       \* the file parts of the request, in the order sent
    area,        \* the area field of the request
    files,       \* req.files
    i,           \* loop index
    results,     \* results
    calls,       \* remote calls issued so far, in order: the form sent with each
    settled,     \* what each finished remote call came back with, in order
    response,    \* the reply sent
    responses    \* number of replies sent

vars == <<envKey, envModel, pc, parts, area, files, i, results, calls, settled,
          response, responses>>

NoResponse == [status |-> 0, body |-> [error |-> "", message |-> ""]]

Init ==
    /\ envKey \in EnvValues
    /\ envModel \in EnvModelValues
    /\ pc = "idle"
    /\ parts = <<>>
    /\ area = ""
    /\ files = <<>>
    /\ i = 0
    /\ results = <<>>
    /\ calls = <<>>
    /\ settled = <<>>
    /\ response = NoResponse
    /\ responses = 0

\* a client sends POST /api/analyze
ReceiveRequest ==
    /\ pc = "idle"
    /\ \E ps \in PartLists, a \in Areas :
          /\ parts' = ps
          /\ area' = a
    /\ pc' = "upload"
    /\ UNCHANGED <<envKey, envModel, files, i, results, calls, settled,
                   response, responses>>

\* first middleware: upload.any() and its callback
UploadMiddleware ==
    /\ pc = "upload"
    /\ LET err == UploadAny(parts, 1)
       IN  IF err # "none"
           THEN /\ response' = UploadErrorResponse(err)
                /\ responses' = responses + 1
                /\ pc' = "done"
                /\ files' = files
           ELSE /\ files' = parts
                /\ pc' = "handler"
                /\ UNCHANGED <<response, responses>>
    /\ UNCHANGED <<envKey, envModel, parts, area, i, results, calls, settled>>

\* second middleware up to the loop: the file check, then the config check
AnalyzeStart ==
    /\ pc = "handler"
    /\ LET v == Validate(files, ROBOFLOW_API_KEY(envKey), ROBOFLOW_MODEL_ID(envModel))
       IN  IF v = "noFiles"
           THEN /\ response' = NoImagesResponse
                /\ responses' = responses + 1
                /\ pc' = "done"
           ELSE IF v = "notConfigured"
           THEN /\ response' = NotConfiguredResponse
                /\ responses' = responses + 1
                /\ pc' = "done"
           ELSE /\ pc' = "loop"
                /\ UNCHANGED <<response, responses>>
    /\ i' = 0
    /\ results' = <<>>
    /\ UNCHANGED <<envKey, envModel, parts, area, files, calls, settled>>

\* loop body up to the await: build the form for files[i], issue axios.post
IssueCall ==
    /\ pc = "loop"
    /\ LoopContinues(i, files)
    /\ calls' = Append(calls, [index |-> i,
                               filename |-> ImageName(files[i + 1], i),
                               contentType |-> files[i + 1].mimetype])
    /\ pc' = "await"
    /\ UNCHANGED <<envKey, envModel, parts, area, files, i, results, settled,
                   response, responses>>

\* the awaited call settles: push the entry for image i (try or catch), i++
RemoteSettles ==
    /\ pc = "await"
    /\ \E o \in RemoteOutcomes :
          /\ settled' = Append(settled, o)
          /\ results' = PushResult(results, ItemResult(files[i + 1], i, o))
    /\ i' = i + 1
    /\ pc' = "loop"
    /\ UNCHANGED <<envKey, envModel, parts, area, files, calls, response, responses>>

\* after the loop: flatten and reply 200
Aggregate ==
    /\ pc = "loop"
    /\ ~LoopContinues(i, files)
    /\ response' = AggregateResponse(area, results)
    /\ responses' = responses + 1
    /\ pc' = "done"
    /\ UNCHANGED <<envKey, envModel, parts, area, files, i, results, calls, settled>>

Next ==
    \/ ReceiveRequest
    \/ UploadMiddleware
    \/ AnalyzeStart
    \/ IssueCall
    \/ RemoteSettles
    \/ Aggregate

Spec == Init /\ [][Next]_vars

\* ------------------------------------------- a remote that stays silent
\* The options given to axios.post hold no timeout (the client's default is
\* none) and the handler arms no timer of its own, so when the remote accepts
\* the call and never answers, the await never resumes: from "hung" the
\* handler has no step left.
RemoteNeverAnswers ==
    /\ pc = "await"
    /\ pc' = "hung"
    /\ UNCHANGED <<envKey, envModel, parts, area, files, i, results, calls,
                   settled, response, responses>>

LiveNext ==
    \/ Next
    \/ RemoteNeverAnswers

\* The event loop runs every callback that is ready, and every call that was
\* issued is either answered at some time or never.
Fairness ==
    /\ WF_vars(UploadMiddleware)
    /\ WF_vars(AnalyzeStart)
    /\ WF_vars(IssueCall)
    /\ WF_vars(Aggregate)
    /\ WF_vars(RemoteSettles \/ RemoteNeverAnswers)

LiveSpec == Init /\ [][LiveNext]_vars /\ Fairness

\* =================================================================
\* Properties
\* =================================================================

\* Helpers used by the properties below; none of them is part of the program.
Done == pc = "done"

HasNonImage == \E k \in 1..Len(parts) : parts[k].mimetype = "text/plain"

AllAcceptable ==
    \A k \in 1..Len(parts) : parts[k].mimetype = "image/jpeg" /\ ~parts[k].oversize

EnvConfigured == envKey = "rf_live_key" /\ envModel = "wings/3"

\* a request that passes every check, with N >= 1 files
Valid == Len(parts) >= 1 /\ AllAcceptable /\ EnvConfigured

\* a remote call that failed, in the words of the specification: non-2xx
\* status, transport error or timeout, malformed body
CallFailed(o) ==
    \/ o.settled = "noResponse"
    \/ o.status # 200
    \/ o.dataKind # "object"
    \/ o.predsKind = "nonArray"

C2_Original ==
    Done /\ HasNonImage =>
        /\ response.status = 400
        /\ response.body.error = "Invalid file type"
        /\ calls = <<>>

FirstNonImage ==
    CHOOSE k \in 1..Len(parts) :
        /\ parts[k].mimetype = "text/plain"
        /\ \A j \in 1..(k - 1) : parts[j].mimetype # "text/plain"

\* C2 amended: every request with a non-image file part is answered 400 and
\* causes no remote call; the error is 'Invalid file type' unless a file part
\* sent before the first non-image part is over the size limit, and then it
\* is 'File too large'.
C2_Amended ==
    HasNonImage =>
        /\ calls = <<>>
        /\ Done =>
            /\ response.status = 400
            /\ responses = 1
            /\ response.body.error =
                 IF \E j \in 1..(FirstNonImage - 1) : parts[j].oversize
                 THEN "File too large"
                 ELSE "Invalid file type"

C2_Witness ==
    /\ Done
    /\ Len(parts) = 2
    /\ parts[1].mimetype = "image/jpeg" /\ ~parts[1].oversize
    /\ parts[2].mimetype = "text/plain"
    /\ EnvConfigured
    /\ response.body.error = "Invalid file type"

\* C3: 'API not configured' is only sent for requests with at least one
\* accepted file; a request without files gets the 400 also when the
\* configuration is missing; a run that ends in a 400 or in the configuration
\* 500 has issued no remote call.
C3_ValidationOrder ==
    Done =>
        /\ (response.status = 500 /\ response.body.error = "API not configured")
              => (Len(parts) >= 1 /\ AllAcceptable /\ ~EnvConfigured)
        /\ (Len(parts) = 0 /\ ~EnvConfigured) => response.status = 400
        /\ (response.status = 400 \/ response.status = 500) => calls = <<>>

C3_Witness ==
    /\ Done
    /\ response.status = 500
    /\ response.body.error = "API not configured"
    /\ Len(parts) = 2

\* what the provider sent for a call that did not fail
ProviderDetections(o) == IF o.predsKind = "array" THEN o.predictions ELSE <<>>

\* <<item index, class>> of the provider's detections of the calls k.. that
\* did not fail, in item order and provider order
RECURSIVE ExpectedTrace(_)
ExpectedTrace(k) ==
    IF k > Len(settled) THEN <<>>
    ELSE (IF CallFailed(settled[k]) THEN <<>>
          ELSE [j \in 1..Len(ProviderDetections(settled[k])) |->
                   <<k - 1, ProviderDetections(settled[k])[j].class>>])
         \o ExpectedTrace(k + 1)

\* C4: a valid request with N files of which any M fail is answered 200 with
\* success true, N results, image_count N, predictions being the detections
\* of the successful items in item order then provider order, and
\* total_defects their number; a failed item contributes no detection.
C4_PartialFailure ==
    Done /\ Valid =>
        /\ response.status = 200
        /\ responses = 1
        /\ response.body.success = TRUE
        /\ Len(response.body.results) = Len(parts)
        /\ response.body.image_count = Len(parts)
        /\ [j \in 1..Len(response.body.predictions) |->
               <<response.body.predictions[j].imageIndex,
                 response.body.predictions[j].class>>] = ExpectedTrace(1)
        /\ response.body.total_defects = Len(response.body.predictions)
        /\ \A k \in 1..Len(settled) :
              CallFailed(settled[k]) => response.body.results[k].predictions = <<>>

C4_Witness ==
    /\ Done
    /\ Valid
    /\ Len(parts) = 2
    /\ settled[1].status = 403
    /\ Len(settled[2].predictions) = 2
    /\ response.body.total_defects = 2

\* C5: results is in submission order: its k-th entry (from 0) has
\* imageIndex k, the name of the k-th file, and is the outcome of the call
\* made for that file.
C5_ResultsInOrder ==
    /\ \A k \in 1..Len(results) :
          /\ results[k].imageIndex = k - 1
          /\ results[k].imageName =
                (IF parts[k].originalname = "" THEN calls[k].filename
                 ELSE parts[k].originalname)
          /\ calls[k].index = k - 1
          /\ ("error" \in DOMAIN results[k]) <=> (CallFailed(settled[k])
                                                   /\ settled[k].dataKind # "string")
          /\ Len(results[k].predictions) =
                (IF CallFailed(settled[k]) THEN 0
                 ELSE Len(ProviderDetections(settled[k])))
    /\ (Done /\ response.status = 200) =>
          /\ response.body.results = results
          /\ Len(results) = Len(parts)

C5_Witness ==
    /\ Done
    /\ response.status = 200
    /\ Len(response.body.results) = 2
    /\ "error" \in DOMAIN response.body.results[1]
    /\ Len(response.body.results[2].predictions) = 1

\* C6: every detection of the flattened list points, by imageIndex and
\* imageName, to exactly one entry of results, and is one of that entry's
\* predictions.
C6_Provenance ==
    (Done /\ response.status = 200) =>
        \A j \in 1..Len(response.body.predictions) :
            LET d == response.body.predictions[j]
                owners == {k \in 1..Len(response.body.results) :
                              /\ response.body.results[k].imageIndex = d.imageIndex
                              /\ response.body.results[k].imageName = d.imageName}
            IN  /\ Cardinality(owners) = 1
                /\ \A k \in owners :
                      \E m \in 1..Len(response.body.results[k].predictions) :
                          response.body.results[k].predictions[m] = d

C6_Witness ==
    /\ Done
    /\ response.status = 200
    /\ Len(parts) = 2
    /\ parts[1].originalname = "a.jpg"
    /\ parts[2].originalname = "a.jpg"
    /\ \E m \in 1..Len(settled[2].predictions) :
          "imageIndex" \in DOMAIN settled[2].predictions[m]
    /\ Len(settled[1].predictions) >= 1

\* C7 as stated: the Failure entry of a failed call carries the message or
\* error field the remote sent with its failed response, when it sent one.
C7_Original ==
    \A k \in 1..Len(results) :
        (/\ settled[k].settled = "response"
         /\ settled[k].status # 200
         /\ (settled[k].message # "" \/ settled[k].error # ""))
        => results[k].error = (IF settled[k].message # "" THEN settled[k].message
                               ELSE settled[k].error)

\* C7 amended: the Failure entry of a failed call carries the message of the
\* error that was thrown: 'Request failed with status code S' for a non-2xx
\* reply, the transport error's message for a transport failure; it is the
\* generic 'Failed to process image' only when that message is empty; the
\* message and error fields of the remote's failed response are not used.
C7_Amended ==
    \A k \in 1..Len(results) :
        LET o == settled[k] IN
        /\ (o.settled = "response" /\ o.status # 200) =>
              /\ results[k].error = "Request failed with status code " \o ToString(o.status)
              /\ results[k].error # o.message
              /\ results[k].error # o.error
        /\ (o.settled = "noResponse" /\ o.networkMessage # "") =>
              results[k].error = o.networkMessage
        /\ (o.settled = "noResponse" /\ o.networkMessage = "") =>
              results[k].error = "Failed to process image"
        /\ ("error" \in DOMAIN results[k] /\ results[k].error = "Failed to process image")
              => (o.settled = "noResponse" /\ o.networkMessage = "")

C7_Witness ==
    /\ Done
    /\ Len(results) = 2
    /\ settled[1].status = 403 /\ settled[1].message = "Forbidden"
    /\ results[1].error = "Request failed with status code 403"
    /\ settled[2].settled = "noResponse"
    /\ results[2].error = "Failed to process image"

\* C8: when every remote call of a request fails alike with HTTP status S,
\* the reply is the top-level 'Roboflow API error' with status S and the
\* message translated from S.
C8_RequestLevelTranslation ==
    (/\ Done
     /\ Len(settled) >= 1
     /\ \A k \in 1..Len(settled) :
           /\ settled[k] = settled[1]
           /\ settled[k].settled = "response"
           /\ settled[k].status # 200)
    => response = OuterCatchResponse(settled[1])

\* C9: the repository's test: a request without image gets 400 with error
\* exactly 'No image provided'.
C9_TestExpectation ==
    (Done /\ Len(parts) = 0) =>
        /\ response.status = 400
        /\ response.body.error = "No image provided"

\* C10: a valid request with N files causes exactly N remote calls, one per
\* item and in item order, none repeated; the call for an item is issued only
\* when the outcomes of all items before it are recorded; a failed item does
\* not stop the calls for the items after it.
C10_OneCallPerItem ==
    /\ \A k \in 1..Len(calls) : calls[k].index = k - 1
    /\ Len(calls) <= Len(parts)
    /\ Len(settled) = Len(results)
    /\ pc = "await" => Len(calls) = Len(results) + 1
    /\ pc # "await" => Len(calls) = Len(results)
    /\ (Done /\ Valid) => Len(calls) = Len(parts)

C10_Witness ==
    /\ Done
    /\ Valid
    /\ Len(parts) = 2
    /\ settled[1].settled = "noResponse"
    /\ Len(calls) = 2
    /\ calls[2].index = 1

\* C11: no request blocks for ever: every request that was received gets
\* exactly one reply, also when the remote never answers one of its calls
\* (that call then counts as a failed item and the items after it are still
\* processed).
C11_EventuallyOneResponse ==
    /\ [](responses <= 1)
    /\ (pc = "upload") ~> (pc = "done" /\ responses = 1)

====
